---------------------------- MODULE Spec2Model ----------------------------
(***************************************************************************)
(* Repository analysis of repo-to-webapp-converter: analyzeRepository      *)
(* (manifest / README metadata extraction) and getRepositoryStats (the     *)
(* recursive directory walk), as written in src/README.md lines 530-657.   *)
(* JavaScript strings are TLA+ strings; "\\" is one backslash character    *)
(* and "\n" is one newline character.                                      *)
(***************************************************************************)
EXTENDS Integers, Sequences, FiniteSets, TLC

VARIABLES
    disk,        \* what is at repoPath: absent, or the root files of a working copy
    tempDir,     \* whether the directory temp, the parent of repoPath, exists
    call,        \* the argument of the last analyzeRepository call
    result,      \* what the last analyzeRepository call returned or threw
    tree,        \* the directory entries below the root handed to getRepositoryStats
    rootOk,      \* whether readdirSync of the root itself succeeds
    statsResult, \* what the last getRepositoryStats call returned
    conv         \* the run of the convert command: options, position, steps taken

vars == <<disk, tempDir, call, result, tree, rootOk, statsResult, conv>>

(***************************************************************************)
(* String primitives of the JavaScript runtime used by the code.           *)
(***************************************************************************)
Min(S) == CHOOSE x \in S : \A y \in S : x <= y

CharAt(s, i) == IF 1 <= i /\ i <= Len(s) THEN SubSeq(s, i, i) ELSE ""

\* s.startsWith(p), at position i (1-based)
StartsWithAt(s, i, p) ==
    /\ i >= 1
    /\ i + Len(p) - 1 <= Len(s)
    /\ SubSeq(s, i, i + Len(p) - 1) = p

startsWith(s, p) == StartsWithAt(s, 1, p)

\* first position >= i where p occurs in s, 0 when there is none
IndexOfFrom(s, p, i) ==
    LET hits == {j \in i..Len(s) : StartsWithAt(s, j, p)}
    IN  IF hits = {} THEN 0 ELSE Min(hits)

\* s.includes(p)
includes(s, p) == IndexOfFrom(s, p, 1) # 0

\* s.split(sep) for a non-empty separator
RECURSIVE splitFrom(_, _, _)
splitFrom(s, sep, i) ==
    LET j == IndexOfFrom(s, sep, i)
    IN  IF j = 0
        THEN <<SubSeq(s, i, Len(s))>>
        ELSE <<SubSeq(s, i, j - 1)>> \o splitFrom(s, sep, j + Len(sep))

split(s, sep) == splitFrom(s, sep, 1)

WhiteSpace == {" ", "\n", "\t", "\r"}

\* s.trim()
trim(s) ==
    LET keep == {i \in 1..Len(s) : CharAt(s, i) \notin WhiteSpace}
    IN  IF keep = {} THEN ""
        ELSE SubSeq(s, Min(keep), CHOOSE x \in keep : \A y \in keep : y <= x)

\* s.substring(0, n)
substring0(s, n) == IF Len(s) <= n THEN s ELSE SubSeq(s, 1, n)


(***************************************************************************)
(* The files analyzeRepository probes at the root of the working copy.     *)
(* A file is absent, present but unreadable (readFileSync throws: a        *)
(* directory of that name, a permission denial), or present with content.  *)
(* The content of package.json is the document readJsonSync parses: either *)
(* malformed text, or a JSON value (null, or an object whose members are   *)
(* given as sequences of <<key, value>> in document order; an absent       *)
(* member is the empty option <<>>).                                       *)
(***************************************************************************)
AbsentFile == [exists |-> FALSE, readable |-> FALSE, content |-> ""]
UnreadableFile == [exists |-> TRUE, readable |-> FALSE, content |-> ""]
TextFile(c) == [exists |-> TRUE, readable |-> TRUE, content |-> c]

Malformed == [valid |-> FALSE, isNull |-> FALSE, description |-> <<>>,
              dependencies |-> <<>>, scripts |-> <<>>]
JsonNull == [valid |-> TRUE, isNull |-> TRUE, description |-> <<>>,
             dependencies |-> <<>>, scripts |-> <<>>]
JsonObject(desc, deps, scr) ==
    [valid |-> TRUE, isNull |-> FALSE, description |-> desc,
     dependencies |-> deps, scripts |-> scr]

AbsentJson == [exists |-> FALSE, readable |-> FALSE, content |-> Malformed]
UnreadableJson == [exists |-> TRUE, readable |-> FALSE, content |-> Malformed]
JsonFile(doc) == [exists |-> TRUE, readable |-> TRUE, content |-> doc]

PackageJsonFiles ==
    { AbsentJson,
      UnreadableJson,
      JsonFile(Malformed),
      JsonFile(JsonNull),
      JsonFile(JsonObject(<<>>, <<>>, <<>>)),
      JsonFile(JsonObject(<<"A node tool">>,
                          << <<<<"a", "1">>, <<"b", "1">>>> >>,
                          << <<<<"build", "vite build">>, <<"test", "jest">>>> >>)),
      JsonFile(JsonObject(<<"">>, << <<<<"b", "1">>, <<"a", "1">>>> >>, <<>>)),
      JsonFile(JsonObject(<<>>, << <<<<"a", "1">>>> >>, << <<>> >>)) }

CargoTomlFiles ==
    { AbsentFile,
      UnreadableFile,
      TextFile("[package]\nname = \"foo\"\ndescription = \"bar\"\n"),
      TextFile("name=\"foo\"\ndescription=\"bar\""),
      TextFile("[package]\nversion = \"1\"\n"),
      TextFile("name\\=\\\"foo\"\ndescription\\ss=\\s\"bar\""),
      TextFile("name\\=\\\"foo\"") }

\* a line of n copies of the character c
RECURSIVE Rep(_, _)
Rep(c, n) == IF n = 0 THEN "" ELSE c \o Rep(c, n - 1)

ReadmeFiles ==
    { AbsentFile,
      UnreadableFile,
      TextFile(""),
      TextFile("# T\nThis tool does something useful."),
      TextFile("This tool does something useful."),
      TextFile("# T\\n \\nThis tool does something useful.\\nMore text follows it."),
      TextFile("# T\nshort"),
      TextFile("nineteen chars here  "),
      TextFile(Rep("x", 205)) }

Absent == [exists |-> FALSE, packageJson |-> AbsentJson,
           cargoToml |-> AbsentFile, readme |-> AbsentFile]

WorkingCopies ==
    [exists : {TRUE}, packageJson : PackageJsonFiles,
     cargoToml : CargoTomlFiles, readme : ReadmeFiles]

\* the <repository> argument: a bare name, or owner/name
Repositories == {"repo", "me/repo"}


(***************************************************************************)
(* analyzeRepository (src/README.md 540-612).  An exception thrown inside  *)
(* the try block is a step outcome with threw = TRUE; the steps after it   *)
(* are skipped, as the jump to the catch clause does.                      *)
(***************************************************************************)
ErrorPrefix == "Failed to analyze repository: "

Ok(m) == [threw |-> FALSE, cause |-> "", md |-> m]
Throw(m, why) == [threw |-> TRUE, cause |-> why, md |-> m]

isFullPath(repository) == includes(repository, "/")

repoName(repository) ==
    IF isFullPath(repository) THEN split(repository, "/")[2] ELSE repository

repoPath(repository) == "temp/" \o repoName(repository)

\* Object.keys of an optional member: keys(member || {})
ObjectKeys(member) ==
    IF member = <<>> THEN <<>>
    ELSE [i \in 1..Len(member[1]) |-> member[1][i][1]]

\* the metadata literal of lines 564-572
initialMetadata(repository, wc) ==
    [name |-> repoName(repository),
     path |-> repoPath(repository),
     description |-> "",
     language |-> "unknown",
     dependencies |-> <<>>,
     scripts |-> <<>>,
     hasReadme |-> wc.readme.exists]

\* extractPackageJson with the parse guarded on its own: a package.json that
\* does not parse is skipped instead of aborting the call
extractPackageJsonLenient(m, wc) ==
    IF ~wc.packageJson.exists THEN Ok(m)
    ELSE IF ~wc.packageJson.readable THEN Throw(m, "EISDIR: illegal operation on a directory, read")
    ELSE IF ~wc.packageJson.content.valid THEN Ok(m)
    ELSE IF wc.packageJson.content.isNull
         THEN Throw(m, "Cannot read properties of null (reading 'description')")
    ELSE LET packageJson == wc.packageJson.content
         IN  Ok([m EXCEPT
                   !.description = IF packageJson.description = <<>>
                                   THEN "" ELSE packageJson.description[1],
                   !.language = "javascript",
                   !.dependencies = ObjectKeys(packageJson.dependencies),
                   !.scripts = ObjectKeys(packageJson.scripts)])

\* extractPackageJson reading the script names from the dependencies member
extractPackageJsonWrongScripts(m, wc) ==
    IF ~wc.packageJson.exists THEN Ok(m)
    ELSE IF ~wc.packageJson.readable THEN Throw(m, "EISDIR: illegal operation on a directory, read")
    ELSE IF ~wc.packageJson.content.valid THEN Throw(m, "Unexpected token in JSON")
    ELSE IF wc.packageJson.content.isNull
         THEN Throw(m, "Cannot read properties of null (reading 'description')")
    ELSE LET packageJson == wc.packageJson.content
         IN  Ok([m EXCEPT
                   !.description = IF packageJson.description = <<>>
                                   THEN "" ELSE packageJson.description[1],
                   !.language = "javascript",
                   !.dependencies = ObjectKeys(packageJson.dependencies),
                   !.scripts = ObjectKeys(packageJson.dependencies)])

\* lines 574-581
extractPackageJson(m, wc) ==
    IF ~wc.packageJson.exists THEN Ok(m)
    ELSE IF ~wc.packageJson.readable THEN Throw(m, "EISDIR: illegal operation on a directory, read")
    ELSE IF ~wc.packageJson.content.valid THEN Throw(m, "Unexpected token in JSON")
    ELSE IF wc.packageJson.content.isNull
         THEN Throw(m, "Cannot read properties of null (reading 'description')")
    ELSE LET packageJson == wc.packageJson.content
         IN  Ok([m EXCEPT
                   !.description = IF packageJson.description = <<>>
                                   THEN "" ELSE packageJson.description[1],
                   !.language = "javascript",
                   !.dependencies = ObjectKeys(packageJson.dependencies),
                   !.scripts = ObjectKeys(packageJson.scripts)])

\* first position >= i of content that holds no "s": the end of the greedy s*
SkipS(content, i) ==
    LET stops == {j \in i..Len(content) : CharAt(content, j) # "s"}
    IN  IF stops = {} THEN Len(content) + 1 ELSE Min(stops)

\* Whether /key\\s*=\\s*"([^"]+)"/ matches content starting at position i and,
\* if so, its capture group.  In the regular expression literal \\ is one literal
\* backslash, so the pattern reads: key, a backslash, any number of "s", "=",
\* a backslash, any number of "s", a quote, one or more non-quotes, a quote.
MatchAt(content, key, i) ==
    LET p1 == i + Len(key)
        p2 == SkipS(content, p1 + 1)
        p3 == SkipS(content, p2 + 2)
        q  == IndexOfFrom(content, "\"", p3 + 1)
    IN  IF /\ StartsWithAt(content, i, key)
           /\ CharAt(content, p1) = "\\"
           /\ CharAt(content, p2) = "="
           /\ CharAt(content, p2 + 1) = "\\"
           /\ CharAt(content, p3) = "\""
           /\ q > p3 + 1
        THEN <<SubSeq(content, p3 + 1, q - 1)>>
        ELSE <<>>

\* content.match(/key\\s*=\\s*"([^"]+)"/): <<>> for null, else <<capture>> of
\* the leftmost match
match(content, key) ==
    LET hits == {i \in 1..Len(content) : MatchAt(content, key, i) # <<>>}
    IN  IF hits = {} THEN <<>> ELSE MatchAt(content, key, Min(hits))

\* extractCargoToml treating a manifest that matches neither pattern as a
\* parse failure
extractCargoTomlStrict(m, wc) ==
    IF ~wc.cargoToml.exists THEN Ok(m)
    ELSE IF ~wc.cargoToml.readable THEN Throw(m, "EISDIR: illegal operation on a directory, read")
    ELSE LET cargoContent == wc.cargoToml.content
             nameMatch == match(cargoContent, "name")
             descMatch == match(cargoContent, "description")
         IN  IF nameMatch = <<>> /\ descMatch = <<>>
             THEN Throw(m, "malformed Cargo.toml")
             ELSE Ok([m EXCEPT
                        !.name = IF nameMatch # <<>> THEN nameMatch[1] ELSE @,
                        !.description = IF descMatch # <<>> THEN descMatch[1] ELSE @,
                        !.language = "rust"])

\* extractCargoToml tagging rust only when no earlier manifest set a language
extractCargoTomlFirstWins(m, wc) ==
    IF ~wc.cargoToml.exists THEN Ok(m)
    ELSE IF ~wc.cargoToml.readable THEN Throw(m, "EISDIR: illegal operation on a directory, read")
    ELSE LET cargoContent == wc.cargoToml.content
             nameMatch == match(cargoContent, "name")
             descMatch == match(cargoContent, "description")
         IN  Ok([m EXCEPT
                   !.name = IF nameMatch # <<>> THEN nameMatch[1] ELSE @,
                   !.description = IF descMatch # <<>> THEN descMatch[1] ELSE @,
                   !.language = IF @ = "unknown" THEN "rust" ELSE @])

\* lines 583-592
extractCargoToml(m, wc) ==
    IF ~wc.cargoToml.exists THEN Ok(m)
    ELSE IF ~wc.cargoToml.readable THEN Throw(m, "EISDIR: illegal operation on a directory, read")
    ELSE LET cargoContent == wc.cargoToml.content
             nameMatch == match(cargoContent, "name")
             descMatch == match(cargoContent, "description")
         IN  Ok([m EXCEPT
                   !.name = IF nameMatch # <<>> THEN nameMatch[1] ELSE @,
                   !.description = IF descMatch # <<>> THEN descMatch[1] ELSE @,
                   !.language = "rust"])

MinParagraphLength == 20
MaxDescriptionLength == 200

\* lines.filter(line => line.trim()): a line is kept when its trim is non-empty
RECURSIVE filterNonBlank(_)
filterNonBlank(ls) ==
    IF ls = <<>> THEN <<>>
    ELSE (IF trim(Head(ls)) # "" THEN <<Head(ls)>> ELSE <<>>)
         \o filterNonBlank(Tail(ls))

\* line 599: the separator '\\n' is the two characters backslash and n
readmeLines(readmeContent) == filterNonBlank(split(readmeContent, "\\n"))

\* line 600: lines.find(...), <<>> for undefined
firstParagraph(lines) ==
    LET hits == {i \in 1..Len(lines) :
                    /\ ~startsWith(lines[i], "#")
                    /\ Len(lines[i]) > MinParagraphLength}
    IN  IF hits = {} THEN <<>> ELSE <<lines[Min(hits)]>>

\* lines 594-605
extractReadme(m, wc) ==
    IF ~m.hasReadme THEN Ok(m)
    ELSE IF ~wc.readme.readable THEN Throw(m, "EISDIR: illegal operation on a directory, read")
    ELSE IF m.description # "" THEN Ok(m)
    ELSE LET found == firstParagraph(readmeLines(wc.readme.content))
         IN  IF found # <<>>
             THEN Ok([m EXCEPT !.description = substring0(found[1], MaxDescriptionLength)])
             ELSE Ok(m)

NoMetadata ==
    [name |-> "", path |-> "", description |-> "", language |-> "",
     dependencies |-> <<>>, scripts |-> <<>>, hasReadme |-> FALSE]

NoResult == [status |-> "none", metadata |-> NoMetadata, message |-> <<"", "">>,
             cloneRan |-> FALSE]

\* lines 559-611 on the working copy wc found (or just cloned) at repoPath:
\* the return value, or the error the catch clause rethrows
extract(repository, wc, cloneRan) ==
    LET r1 == extractPackageJson(initialMetadata(repository, wc), wc)
        r2 == IF r1.threw THEN r1 ELSE extractCargoToml(r1.md, wc)
        r  == IF r2.threw THEN r2 ELSE extractReadme(r2.md, wc)
    IN  IF r.threw
        THEN [status |-> "threw", metadata |-> NoMetadata,
              message |-> <<ErrorPrefix, r.cause>>, cloneRan |-> cloneRan]
        ELSE [status |-> "returned", metadata |-> r.md, message |-> <<"", "">>,
              cloneRan |-> cloneRan]

\* the error the catch clause rethrows for a failure before the metadata
\* is read (lines 547-557)
cloneFailure(why, cloneRan) ==
    [status |-> "threw", metadata |-> NoMetadata,
     message |-> <<ErrorPrefix, why>>, cloneRan |-> cloneRan]

\* analyzeRepositoryCall without the existsSync test of line 548: the clone
\* command runs on every call
analyzeRepositoryCallAlwaysClones(repository) ==
    /\ call' = repository
    /\ tempDir' = TRUE
    /\ \/ /\ disk' = disk
          /\ result' = cloneFailure("Command failed: gh repo clone", TRUE)
       \/ \E wc \in WorkingCopies :
              /\ disk' = wc
              /\ result' = extract(repository, wc, TRUE)

\* One call analyzeRepository(repository), lines 540-612.  When repoPath does
\* not exist, ensureDirSync creates the directory temp (or throws) and the
\* clone command runs: it fails (execSync throws) or leaves some working copy
\* at repoPath.  When repoPath exists the files are only read.
analyzeRepositoryCall(repository) ==
    /\ call' = repository
    /\ IF disk.exists
       THEN /\ disk' = disk
            /\ tempDir' = tempDir
            /\ result' = extract(repository, disk, FALSE)
       ELSE \/ /\ ~tempDir
               /\ disk' = disk
               /\ tempDir' = tempDir
               /\ result' = cloneFailure("EEXIST: file already exists, mkdir", FALSE)
            \/ /\ disk' = disk
               /\ tempDir' = TRUE
               /\ result' = cloneFailure("Command failed: gh repo clone", TRUE)
            \/ \E wc \in WorkingCopies :
                   /\ disk' = wc
                   /\ tempDir' = TRUE
                   /\ result' = extract(repository, wc, TRUE)

AnalyzeRepository ==
    /\ \E repository \in Repositories : analyzeRepositoryCall(repository)
    /\ UNCHANGED <<tree, rootOk, statsResult, conv>>


(***************************************************************************)
(* The directory tree getRepositoryStats walks.  Entry i of tree lies in   *)
(* the directory tree[i].parent (0 is the root).  An entry is a regular    *)
(* file with a byte size, a directory, a directory readdirSync cannot list *)
(* ("lockedDir"), an entry that is neither file nor directory ("other": a  *)
(* FIFO, a socket), or an entry statSync fails on ("gone": it vanished     *)
(* after the listing).  Sizes are in bytes.  A symbolic link ("link") has  *)
(* a target: an earlier entry, the root (0), or nothing (-1, a dangling    *)
(* link); the target of every other entry is -1.                           *)
(***************************************************************************)
MaxEntries == 3

\* how many symbolic links the system follows while resolving one path
\* before the access fails with ELOOP
MaxSymlinkHops == 2

Names == <<".git", "B.TXT", "a.txt", "lib.rs", "node_modules", "src">>

File(ix, bytes) == [nameIx |-> ix, kind |-> "file", size |-> bytes, target |-> -1]
Entry(ix, k) == [nameIx |-> ix, kind |-> k, size |-> 0, target |-> -1]
Link(ix, to) == [nameIx |-> ix, kind |-> "link", size |-> 0, target |-> to]

\* what an entry of each name may be
EntryChoices ==
    { Entry(1, "dir"), Entry(1, "lockedDir"), File(1, 1),
      File(2, 2),
      File(3, 0), File(3, 5), Entry(3, "gone"), Entry(3, "other"),
      File(4, 1),
      Entry(5, "dir"), File(5, 1),
      Entry(6, "dir"), Entry(6, "lockedDir") }

IsDir(e) == e.kind \in {"dir", "lockedDir"}

\* the entries that may follow the entries of t: they are numbered directory
\* by directory, names ascending, so that every tree is listed once
NextEntriesAmong(t, choices) ==
    LET n == Len(t)
    IN  { e \in { [parent |-> p, nameIx |-> c.nameIx, kind |-> c.kind, size |-> c.size,
                   target |-> c.target] : p \in 0..n, c \in choices } :
            /\ e.parent = 0 \/ IsDir(t[e.parent])
            /\ n > 0 =>
                 \/ t[n].parent < e.parent
                 \/ t[n].parent = e.parent /\ t[n].nameIx < e.nameIx }

NextEntries(t) == NextEntriesAmong(t, EntryChoices)

RECURSIVE TreesOfSize(_)
TreesOfSize(n) ==
    IF n = 0 THEN {<<>>}
    ELSE UNION { {Append(t, e) : e \in NextEntries(t)} : t \in TreesOfSize(n - 1) }

Trees == UNION {TreesOfSize(n) : n \in 0..MaxEntries}

\* what an entry may be in a tree with symbolic links, after the entries of
\* t: a link named a.txt or src to nothing, to the root or to an entry of t
LinkChoices(t) ==
    { File(3, 5), File(4, 1), Entry(3, "other"), Entry(6, "dir"), Entry(1, "dir") }
    \cup { Link(ix, to) : ix \in {3, 6}, to \in -1..Len(t) }

RECURSIVE LinkTreesOfSize(_)
LinkTreesOfSize(n) ==
    IF n = 0 THEN {<<>>}
    ELSE UNION { {Append(t, e) : e \in NextEntriesAmong(t, LinkChoices(t))} :
                   t \in LinkTreesOfSize(n - 1) }

LinkTrees == UNION {LinkTreesOfSize(n) : n \in 0..MaxEntries}

NameOf(e) == Names[e.nameIx]

\* fs.statSync(filePath) of entry file, line 634.  statSync follows symbolic
\* links: the answer has the name of the entry and the kind and size of what
\* the links lead to ("gone" when they lead nowhere: statSync throws ENOENT);
\* at is the directory a listing of filePath lists, hops the links followed.
RECURSIVE statSync(_, _)
statSync(t, file) ==
    LET e == t[file]
    IN  IF e.kind # "link"
        THEN [nameIx |-> e.nameIx, kind |-> e.kind, size |-> e.size,
              at |-> file, hops |-> 0]
        ELSE IF e.target = -1
        THEN [nameIx |-> e.nameIx, kind |-> "gone", size |-> 0, at |-> file, hops |-> 1]
        ELSE IF e.target = 0
        THEN [nameIx |-> e.nameIx, kind |-> "dir", size |-> 0, at |-> 0, hops |-> 1]
        ELSE LET to == statSync(t, e.target)
             IN  [to EXCEPT !.nameIx = e.nameIx, !.hops = @ + 1]


UpperCase == "ABCDEFGHIJKLMNOPQRSTUVWXYZ"
LowerCase == "abcdefghijklmnopqrstuvwxyz"

\* s.toLowerCase()
RECURSIVE toLowerCase(_)
toLowerCase(s) ==
    IF s = "" THEN ""
    ELSE LET c == CharAt(s, 1)
             k == IndexOfFrom(UpperCase, c, 1)
         IN  (IF k = 0 THEN c ELSE CharAt(LowerCase, k))
             \o toLowerCase(SubSeq(s, 2, Len(s)))

\* path.extname(file) for an entry name (no separator in it): from the last
\* "." to the end, "" when there is no "." or the only one leads the name
extname(file) ==
    LET dots == {i \in 1..Len(file) : CharAt(file, i) = "."}
        last == CHOOSE x \in dots : \A y \in dots : y <= x
    IN  IF dots = {} THEN ""
        ELSE IF last = 1 THEN ""
        ELSE SubSeq(file, last, Len(file))

\* the stats literal of lines 621-626, and the literal the catch clause
\* returns (line 655)
ZeroStats == [files |-> 0, lines |-> 0, size |-> 0, languages |-> <<>>]

\* fs.readdirSync(dir): the entries of directory dir, in the order the
\* listing gives them; order is a permutation of the entry numbers
RECURSIVE SortBy(_, _)
SortBy(S, order) ==
    IF S = {} THEN <<>>
    ELSE LET first == CHOOSE i \in S : \A j \in S : order[i] <= order[j]
         IN  <<first>> \o SortBy(S \ {first}, order)

readdirSync(t, dir, order) ==
    SortBy({i \in 1..Len(t) : t[i].parent = dir}, order)

\* path.extname(file).toLowerCase() (line 642) of each name of Names
extOf == [k \in 1..Len(Names) |-> toLowerCase(extname(Names[k]))]

\* countFile assigning the size of the file instead of adding it
countFileAssignsSize(stats, e) ==
    LET ext == extOf[e.nameIx]
        counted == [stats EXCEPT !.files = @ + 1, !.size = e.size]
    IN  IF ext = "" THEN counted
        ELSE [counted EXCEPT !.languages =
                 IF ext \in DOMAIN @ THEN [@ EXCEPT ![ext] = @ + 1]
                 ELSE @ @@ (ext :> 1)]

\* lines 639-645: one regular file is counted
countFile(stats, e) ==
    LET ext == extOf[e.nameIx]
        counted == [stats EXCEPT !.files = @ + 1, !.size = @ + e.size]
    IN  IF ext = "" THEN counted
        ELSE [counted EXCEPT !.languages =
                 IF ext \in DOMAIN @ THEN [@ EXCEPT ![ext] = @ + 1]
                 ELSE @ @@ (ext :> 1)]

\* line 636, the test on the name: !file.startsWith('.') && file !== 'node_modules',
\* for each name of Names
nameAllowed ==
    [k \in 1..Len(Names) |-> ~startsWith(Names[k], ".") /\ Names[k] # "node_modules"]

\* recursesInto without the node_modules test
recursesIntoNodeModules(e) == IsDir(e) /\ ~startsWith(NameOf(e), ".")

\* line 636: the directories walkDir recurses into
recursesInto(e) == IsDir(e) /\ nameAllowed[e.nameIx]

\* walkDir, lines 629-648.  acc is [stats, threw, hops]: the accumulator the
\* closure updates, whether an exception is propagating, and the symbolic
\* links on the path of the directory being listed (an access through more
\* than MaxSymlinkHops links throws ELOOP).  walkDir(t, dir, ...) is the call
\* on directory dir, walkFiles the for loop over the rest of a listing.
RECURSIVE walkDir(_, _, _, _, _), walkFiles(_, _, _, _, _)
walkDir(t, dir, listable, order, acc) ==
    IF acc.threw THEN acc
    ELSE IF ~listable THEN [acc EXCEPT !.threw = TRUE]
    ELSE walkFiles(t, readdirSync(t, dir, order), listable, order, acc)

walkFiles(t, files, listable, order, acc) ==
    IF acc.threw \/ files = <<>> THEN acc
    ELSE LET file == Head(files)
             e == statSync(t, file)
             after ==
                 IF e.kind = "gone" \/ acc.hops + e.hops > MaxSymlinkHops
                 THEN [acc EXCEPT !.threw = TRUE]
                 ELSE IF recursesInto(e)
                      THEN [walkDir(t, e.at, e.kind = "dir", order,
                                    [acc EXCEPT !.hops = @ + e.hops])
                               EXCEPT !.hops = acc.hops]
                 ELSE IF e.kind = "file"
                      THEN [acc EXCEPT !.stats = countFile(@, e)]
                 ELSE acc
         IN  walkFiles(t, Tail(files), listable, order, after)

\* getRepositoryStats whose catch clause returns the counts gathered so far
getRepositoryStatsPartial(t, rootListable, order) ==
    LET acc == walkDir(t, 0, rootListable, order,
                       [stats |-> ZeroStats, threw |-> FALSE, hops |-> 0])
    IN  [called |-> TRUE, threw |-> FALSE, stats |-> acc.stats]

\* getRepositoryStats, lines 619-657: what the call hands back.  threw says
\* whether an exception leaves the function; the catch clause of line 653
\* catches every one and returns the zero literal instead.
getRepositoryStats(t, rootListable, order) ==
    LET acc == walkDir(t, 0, rootListable, order,
                       [stats |-> ZeroStats, threw |-> FALSE, hops |-> 0])
    IN  [called |-> TRUE, threw |-> FALSE,
         stats |-> IF acc.threw THEN ZeroStats ELSE acc.stats]

\* every listing order: the permutations of the entry numbers
Orders(t) == Permutations(1..Len(t))

NoStats == [called |-> FALSE, threw |-> FALSE, stats |-> ZeroStats]

GetRepositoryStats ==
    \E order \in Orders(tree) :
        /\ statsResult' = getRepositoryStats(tree, rootOk, order)
        /\ UNCHANGED <<disk, tempDir, call, result, tree, rootOk, conv>>

(***************************************************************************)
(* The convert command, src/scripts/convert.js 30-114.  The handler awaits *)
(* each step; conv.pc is the step it is about to run.  ran lists the steps *)
(* started, succeeded those that returned.  A step that throws jumps to    *)
(* the catch clause (lines 109-113), which reports the error and exits     *)
(* with code 1; after the last step the handler returns and the process    *)
(* ends with code 0.  The analyzers other than analyzeRepository, the      *)
(* generators, the package manager and the deployer either return or throw.*)
(***************************************************************************)
Platforms == {"vercel", "netlify"}

\* the step returned: on to the next one, or to the end of the handler
stepSucceeded(c, step, next) ==
    [c EXCEPT !.ran = Append(@, step),
              !.succeeded = @ \cup {step},
              !.pc = next,
              !.exit = IF next = "exited" THEN 0 ELSE @]

\* the step threw: lines 109-113
stepFailed(c, step) ==
    [c EXCEPT !.ran = Append(@, step),
              !.failed = step,
              !.reported = TRUE,
              !.exit = 1,
              !.pc = "exited"]

\* Step 1, lines 35-48: analyzeRepository, detectLanguage, extractFeatures
ConvertAnalysis ==
    /\ conv.pc = "analysis"
    /\ analyzeRepositoryCall(conv.repository)
    /\ \/ /\ result'.status = "threw"
          /\ conv' = stepFailed(conv, "analysis")
       \/ /\ result'.status = "returned"
          /\ conv' = stepFailed(conv, "analysis")
       \/ /\ result'.status = "returned"
          /\ conv' = stepSucceeded(conv, "analysis", "generation")
    /\ UNCHANGED <<tree, rootOk, statsResult>>

\* Step 2, lines 50-69: generateReactApp, generateComponents
ConvertGeneration ==
    /\ conv.pc = "generation"
    /\ \/ conv' = stepFailed(conv, "generation")
       \/ conv' = stepSucceeded(conv, "generation", "build")
    /\ UNCHANGED <<disk, tempDir, call, result, tree, rootOk, statsResult>>

\* ConvertBuild going on to the deployment whether or not --deploy was given
ConvertBuildAlwaysDeploys ==
    /\ conv.pc = "build"
    /\ \/ conv' = stepFailed(conv, "build")
       \/ conv' = stepSucceeded(conv, "build", "deployment")
    /\ UNCHANGED <<disk, tempDir, call, result, tree, rootOk, statsResult>>

\* Step 3, lines 71-78: chdir, pnpm install, pnpm run build; then the test
\* of options.deploy (line 81)
ConvertBuild ==
    /\ conv.pc = "build"
    /\ \/ conv' = stepFailed(conv, "build")
       \/ conv' = stepSucceeded(conv, "build",
                                IF conv.deploy THEN "deployment" ELSE "exited")
    /\ UNCHANGED <<disk, tempDir, call, result, tree, rootOk, statsResult>>

\* Step 4, lines 80-96: the switch on options.platform
ConvertDeployment ==
    /\ conv.pc = "deployment"
    /\ \/ /\ conv.platform = "vercel"
          /\ conv' = stepSucceeded(conv, "deployment", "exited")
       \/ /\ conv.platform = "vercel"
          /\ conv' = stepFailed(conv, "deployment")
       \/ /\ conv.platform # "vercel"
          /\ conv' = stepFailed(conv, "deployment")
    /\ UNCHANGED <<disk, tempDir, call, result, tree, rootOk, statsResult>>

(***************************************************************************)
(* Specifications.  Spec: analyzeRepository called on every working copy   *)
(* of the input sets.  SpecStats: getRepositoryStats called on every tree  *)
(* of at most MaxEntries entries, under every listing order.  SpecLinks:   *)
(* the same call on the trees that hold symbolic links.                    *)
(***************************************************************************)
\* the convert command is not running
NoConversion ==
    [pc |-> "idle", repository |-> "", deploy |-> FALSE, platform |-> "",
     ran |-> <<>>, succeeded |-> {}, failed |-> "", reported |-> FALSE, exit |-> -1]

Init ==
    /\ disk \in {Absent} \cup WorkingCopies
    /\ tempDir \in IF disk.exists THEN {TRUE} ELSE BOOLEAN
    /\ conv = NoConversion
    /\ call = ""
    /\ result = NoResult
    /\ tree = <<>>
    /\ rootOk = TRUE
    /\ statsResult = NoStats

Next == AnalyzeRepository

Spec == Init /\ [][Next]_vars

InitStats ==
    /\ disk = Absent
    /\ tempDir = FALSE
    /\ conv = NoConversion
    /\ call = ""
    /\ result = NoResult
    /\ tree \in Trees
    /\ rootOk \in BOOLEAN
    /\ statsResult = NoStats

NextStats == GetRepositoryStats

InitLinks ==
    /\ disk = Absent
    /\ tempDir = FALSE
    /\ conv = NoConversion
    /\ call = ""
    /\ result = NoResult
    /\ tree \in LinkTrees
    /\ rootOk = TRUE
    /\ statsResult = NoStats

NextLinks == GetRepositoryStats

SpecLinks == InitLinks /\ [][NextLinks]_vars

\* convert <repository> [--deploy] [--platform <platform>] is started
InitConvert ==
    /\ disk \in {Absent} \cup WorkingCopies
    /\ tempDir \in IF disk.exists THEN {TRUE} ELSE BOOLEAN
    /\ conv \in [pc : {"analysis"}, repository : Repositories, deploy : BOOLEAN,
                 platform : Platforms, ran : {<<>>}, succeeded : {{}},
                 failed : {""}, reported : {FALSE}, exit : {-1}]
    /\ call = ""
    /\ result = NoResult
    /\ tree = <<>>
    /\ rootOk = TRUE
    /\ statsResult = NoStats

NextConvert ==
    \/ ConvertAnalysis
    \/ ConvertGeneration
    \/ ConvertBuild
    \/ ConvertDeployment

SpecConvert == InitConvert /\ [][NextConvert]_vars

SpecStats == InitStats /\ [][NextStats]_vars


(***************************************************************************)
(* Properties of analyzeRepository, checked under Spec.                    *)
(***************************************************************************)
Called == result.status # "none"
Returned == result.status = "returned"
Threw == result.status = "threw"

\* content has the line l (lines as text editors and TOML see them: split at
\* the newline character)
HasLine(content, l) == \E i \in 1..Len(split(content, "\n")) : split(content, "\n")[i] = l

\* every file analyzeRepository opens can be read
AllReadable ==
    /\ disk.packageJson.exists => disk.packageJson.readable
    /\ disk.cargoToml.exists => disk.cargoToml.readable
    /\ disk.readme.exists => disk.readme.readable

\* C1: a root with a Cargo.toml holding the lines name = "foo" and
\* description = "bar", and no package.json, yields a record with name "foo",
\* description "bar" and language rust.
C1_CargoNameAndDescription ==
    ( /\ Called
      /\ disk.exists
      /\ AllReadable
      /\ ~disk.packageJson.exists
      /\ disk.cargoToml.exists
      /\ HasLine(disk.cargoToml.content, "name = \"foo\"")
      /\ HasLine(disk.cargoToml.content, "description = \"bar\"") )
    => /\ Returned
       /\ result.metadata.name = "foo"
       /\ result.metadata.description = "bar"
       /\ result.metadata.language = "rust"

\* the description the manifests leave behind, before the README is looked at
manifestDescription(repository, wc) ==
    LET r1 == extractPackageJson(initialMetadata(repository, wc), wc)
        r2 == IF r1.threw THEN r1 ELSE extractCargoToml(r1.md, wc)
    IN  r2.md.description

\* the README description as C2 words it: the lines of the text, blank ones
\* dropped, the first that is no heading and is longer than 20 characters
\* once trimmed, cut to 200 characters; "" when there is none
describedReadmeDescription(readmeContent) ==
    LET lines == filterNonBlank(split(readmeContent, "\n"))
        hits == {i \in 1..Len(lines) :
                    /\ ~startsWith(lines[i], "#")
                    /\ Len(trim(lines[i])) > MinParagraphLength}
    IN  IF hits = {} THEN ""
        ELSE substring0(lines[Min(hits)], MaxDescriptionLength)

\* C2: when no manifest supplied a description and README.md exists, the
\* description is the first non-heading line of the README whose trimmed
\* length exceeds 20, cut to 200 characters, and "" when no line qualifies.
C2_ReadmeFirstParagraph ==
    ( /\ Returned
      /\ disk.readme.exists
      /\ manifestDescription(call, disk) = "" )
    => result.metadata.description = describedReadmeDescription(disk.readme.content)

\* C3: language and dependencies/scripts come from the same manifest:
\* dependencies and scripts are only ever read from package.json, so a record
\* that lists any is tagged javascript.
C3_LanguageAndDependenciesSameManifest ==
    ( /\ Returned
      /\ \/ result.metadata.dependencies # <<>>
         \/ result.metadata.scripts # <<>> )
    => result.metadata.language = "javascript"

\* the Cargo.toml is there, readable, and has no name and no description
\* key at all, so that neither pattern can match it
CargoMatchesNothing ==
    /\ disk.exists
    /\ disk.cargoToml.exists
    /\ disk.cargoToml.readable
    /\ ~includes(disk.cargoToml.content, "name")
    /\ ~includes(disk.cargoToml.content, "description")

\* C4 as stated: a Cargo.toml that matches neither pattern makes the call
\* throw "Failed to analyze repository: ...".
C4_Original_UnmatchedCargoThrows ==
    (Called /\ CargoMatchesNothing)
    => Threw /\ result.message[1] = ErrorPrefix

\* no step other than the Cargo.toml one can fail
OtherStepsSucceed ==
    /\ AllReadable
    /\ disk.packageJson.exists =>
         disk.packageJson.content.valid /\ ~disk.packageJson.content.isNull

\* C4 (amended): a Cargo.toml that matches neither pattern does not abort
\* the call; when no other step fails the call returns a record that keeps
\* the default name and is tagged rust.
C4_UnmatchedCargoReturnsDefaults ==
    (Called /\ CargoMatchesNothing /\ OtherStepsSucceed)
    => /\ Returned
       /\ result.metadata.name = repoName(call)
       /\ result.metadata.language = "rust"

C4_Witness ==
    /\ Called /\ CargoMatchesNothing /\ OtherStepsSucceed
    /\ HasLine(disk.cargoToml.content, "version = \"1\"")
    /\ Returned
    /\ result.metadata.language = "rust"

\* package.json is there, can be read, and is not valid JSON
PackageJsonMalformed ==
    /\ disk.exists
    /\ disk.packageJson.exists
    /\ disk.packageJson.readable
    /\ ~disk.packageJson.content.valid

\* C5: a package.json that is not valid JSON makes the call throw an error
\* prefixed "Failed to analyze repository: " and return no record, whatever
\* Cargo.toml and README.md hold.
C5_MalformedPackageJsonThrows ==
    (Called /\ PackageJsonMalformed)
    => /\ Threw
       /\ result.message[1] = ErrorPrefix
       /\ result.metadata = NoMetadata

C5_Witness ==
    /\ Called /\ PackageJsonMalformed
    /\ disk.cargoToml.exists /\ disk.cargoToml.readable
    /\ match(disk.cargoToml.content, "name") # <<>>
    /\ disk.readme.exists /\ disk.readme.readable
    /\ Threw

BothManifests == disk.exists /\ disk.packageJson.exists /\ disk.cargoToml.exists

Range(seq) == {seq[i] : i \in 1..Len(seq)}

PackageJsonOnly == disk.exists /\ disk.packageJson.exists /\ ~disk.cargoToml.exists

\* the description member of package.json, "" when absent
packageDescription ==
    IF disk.packageJson.content.description = <<>> THEN ""
    ELSE disk.packageJson.content.description[1]

\* language, dependencies and scripts as C7 states them
C7_ManifestFields ==
    /\ result.metadata.language = "javascript"
    /\ Range(result.metadata.dependencies)
         = Range(ObjectKeys(disk.packageJson.content.dependencies))
    /\ Range(result.metadata.scripts)
         = Range(ObjectKeys(disk.packageJson.content.scripts))

\* C7 as stated: with a valid package.json and no Cargo.toml the call
\* returns language javascript, the dependency and script names of the
\* manifest, and the manifest's description ("" when it has none).
C7_Original_PackageJsonOnly ==
    (Called /\ PackageJsonOnly /\ AllReadable /\ disk.packageJson.content.valid
        /\ ~disk.packageJson.content.isNull)
    => /\ Returned
       /\ C7_ManifestFields
       /\ result.metadata.description = packageDescription

\* C7 (amended): with a package.json and no Cargo.toml, every record the
\* call returns has language javascript and the dependency and script names
\* of the manifest; its description is the manifest's when that is not
\* empty, and is "" when the manifest has none and there is no README.md.
C7_PackageJsonOnly ==
    (Returned /\ PackageJsonOnly)
    => /\ C7_ManifestFields
       /\ packageDescription # "" => result.metadata.description = packageDescription
       /\ (packageDescription = "" /\ ~disk.readme.exists)
            => result.metadata.description = ""

C7_Witness ==
    /\ Returned /\ PackageJsonOnly
    /\ Range(result.metadata.dependencies) = {"a", "b"}
    /\ Range(result.metadata.scripts) = {"build", "test"}
    /\ result.metadata.description = "A node tool"


(***************************************************************************)
(* Properties of getRepositoryStats, checked under SpecStats.              *)
(***************************************************************************)
\* the entries the walk reaches when nothing fails: those whose ancestors
\* are all directories with a name that neither starts with "." nor is
\* node_modules
RECURSIVE Reachable(_, _)
Reachable(t, i) ==
    \/ t[i].parent = 0
    \/ /\ IsDir(t[t[i].parent])
       /\ nameAllowed[t[t[i].parent].nameIx]
       /\ Reachable(t, t[i].parent)

\* the filesystem accesses of the walk that fail: the listing of the root,
\* the stat of a reachable entry, the listing of a reachable directory the
\* walk recurses into
SomeAccessFails ==
    \/ ~rootOk
    \/ \E i \in 1..Len(tree) :
          /\ Reachable(tree, i)
          /\ \/ tree[i].kind = "gone"
             \/ tree[i].kind = "lockedDir" /\ nameAllowed[tree[i].nameIx]

\* the regular files reachable from the root
ReachableFiles == {i \in 1..Len(tree) : tree[i].kind = "file" /\ Reachable(tree, i)}

RECURSIVE SumOfSizes(_)
SumOfSizes(S) ==
    IF S = {} THEN 0
    ELSE LET i == CHOOSE x \in S : TRUE
         IN  tree[i].size + SumOfSizes(S \ {i})

\* the histogram of the lowercased extensions of the reachable files
ExtensionHistogram ==
    [x \in {extOf[tree[i].nameIx] : i \in ReachableFiles} \ {""} |->
        Cardinality({i \in ReachableFiles : extOf[tree[i].nameIx] = x})]

\* C8: on a tree where no access fails, files is the number of regular files
\* reachable without passing through a directory named .* or node_modules,
\* size the sum of their sizes, languages the histogram of their lowercased
\* extensions; an empty root gives 0, 0 and the empty histogram.
C8_StatsCountReachableFiles ==
    (statsResult.called /\ ~SomeAccessFails)
    => /\ statsResult.stats.files = Cardinality(ReachableFiles)
       /\ statsResult.stats.size = SumOfSizes(ReachableFiles)
       /\ statsResult.stats.languages = ExtensionHistogram
       /\ tree = <<>> => statsResult.stats = ZeroStats

\* a hidden directory .git holding a file, next to the visible 5-byte a.txt
C8_Witness ==
    /\ statsResult.called /\ ~SomeAccessFails
    /\ \E i, j, k \in 1..Len(tree) :
          /\ NameOf(tree[i]) = ".git" /\ tree[i].kind = "dir" /\ tree[i].parent = 0
          /\ tree[j].parent = i /\ tree[j].kind = "file"
          /\ NameOf(tree[k]) = "a.txt" /\ tree[k].parent = 0 /\ tree[k].size = 5
    /\ statsResult.stats.files = 1
    /\ statsResult.stats.size = 5
    /\ statsResult.stats.languages = (".txt" :> 1)

\* C9: when an access fails during the walk, at any depth and after any
\* number of files were counted, the call returns the zero record: no
\* partial counts, no exception to the caller.
C9_FailureGivesZeroStats ==
    (statsResult.called /\ SomeAccessFails)
    => /\ ~statsResult.threw
       /\ statsResult.stats = ZeroStats

\* a failure below the root, with a regular file in the root to be counted
C9_Witness ==
    /\ statsResult.called
    /\ rootOk
    /\ \E i, j \in 1..Len(tree) :
          /\ tree[i].parent # 0 /\ Reachable(tree, i) /\ tree[i].kind = "gone"
          /\ tree[j].parent = 0 /\ tree[j].kind = "file"
    /\ statsResult.stats = ZeroStats

\* the listing order that gives the entries by ascending number
Ascending == [i \in 1..Len(tree) |-> i]

\* C10: whatever order the listings took, the call returns what it returns
\* under the ascending order: files, size and languages do not depend on
\* the traversal order.
C10_OrderIndependent ==
    statsResult.called => statsResult = getRepositoryStats(tree, rootOk, Ascending)

\* three counted files in one directory: six listing orders, one result
C10_Witness ==
    /\ statsResult.called /\ ~SomeAccessFails
    /\ Cardinality({i \in ReachableFiles : tree[i].parent = 0}) = 3
    /\ statsResult.stats.files = 3
    /\ Cardinality(DOMAIN statsResult.stats.languages) = 2


(***************************************************************************)
(* Frame of analyzeRepository, checked under Spec.                         *)
(***************************************************************************)
\* C11: the clone command runs only in a call that finds no repoPath; a
\* call that finds repoPath runs no clone and changes nothing on disk
\* (neither the working copy nor the directory temp).
C11_CloneOnlyWhenAbsent ==
    [][ disk.exists => /\ ~result'.cloneRan
                       /\ disk' = disk
                       /\ tempDir' = tempDir ]_vars

\* a call has read an existing working copy without cloning it
C11_Witness ==
    /\ Returned
    /\ disk.exists
    /\ ~result.cloneRan
    /\ result.metadata.language = "javascript"


(***************************************************************************)
(* Symbolic links in the walk, checked under SpecLinks.                    *)
(***************************************************************************)
\* C12: symbolic links and other entries that are neither regular files nor
\* directories are skipped, neither counted nor recursed into: whatever
\* links the tree holds (dangling, or to an ancestor), the walk ends with
\* the count and the total size of the regular files reachable through
\* directories, each visited once.
C12_LinksSkipped ==
    (statsResult.called /\ ~SomeAccessFails)
    => /\ ~statsResult.threw
       /\ statsResult.stats.files = Cardinality(ReachableFiles)
       /\ statsResult.stats.size = SumOfSizes(ReachableFiles)


(***************************************************************************)
(* Order of the steps of the convert command, checked under SpecConvert.   *)
(***************************************************************************)
StepOrder == <<"analysis", "generation", "build", "deployment">>

\* C13: the steps start in the order analysis, generation, build,
\* deployment, each only after every earlier one succeeded; a step that
\* fails (an unsupported platform included) is reported, the exit code is 1
\* and no later step has started; the deployment starts only with --deploy
\* and after the build succeeded.
C13_StepsInOrder ==
    /\ Len(conv.ran) <= Len(StepOrder)
    /\ \A i \in 1..Len(conv.ran) :
          /\ conv.ran[i] = StepOrder[i]
          /\ \A j \in 1..(i - 1) : conv.ran[j] \in conv.succeeded
    /\ conv.failed # "" =>
          /\ conv.pc = "exited"
          /\ conv.reported
          /\ conv.exit = 1
          /\ conv.ran[Len(conv.ran)] = conv.failed
          /\ conv.failed \notin conv.succeeded
    /\ "deployment" \in Range(conv.ran) =>
          /\ conv.deploy
          /\ "build" \in conv.succeeded

\* --deploy --platform netlify: the build succeeded, the deployment failed
C13_Witness ==
    /\ conv.deploy
    /\ conv.platform = "netlify"
    /\ conv.ran = StepOrder
    /\ conv.succeeded = {"analysis", "generation", "build"}
    /\ conv.failed = "deployment"
    /\ conv.exit = 1

=============================================================================
